---- MODULE Spec2Model ----
(***************************************************************************)
(* The channel-backed body of src/body/body.rs: a Sender/Recv pair built   *)
(* by Recv::new_channel over a watch signal (want), a capacity-one mpsc    *)
(* queue (data) and a oneshot slot (trailers).  Every handler of Sender    *)
(* and of Recv (Kind::Chan) is one action; polls record their result in    *)
(* last, and the wake-ups they cause in prod_woken / cons_woken.           *)
(* Spec also starts from Recv::empty (Kind::Empty); SpecH2 is the body     *)
(* built by Recv::h2 over an HTTP/2 receive stream (Kind::H2).             *)
(***************************************************************************)
EXTENDS Integers, Sequences, FiniteSets, TLC

VARIABLES
    kind,            \* the variant of Recv.kind: Empty, Chan or H2
    h2,              \* Kind::H2: the receive stream, its flow control and the ping recorder
    wanter,          \* new_channel's wanter argument (lazy demand mode)
    declared,        \* new_channel's content_length argument, as given
    content_length,  \* Kind::Chan.content_length
    want,            \* the watch channel shared by want_tx / want_rx
    data,            \* the mpsc channel shared by data_tx / data_rx
    trailers,        \* the oneshot channel shared by trailers_tx / trailers_rx
    trailers_tx,     \* Sender.trailers_tx is Some (as the Sender last held it)
    tx_alive,        \* the Sender has not been dropped
    rx_alive,        \* the Recv has not been dropped
    tx_pc,           \* producer task: idle, ready (poll_ready pending), send (send_data pending)
    tx_chunk,        \* the chunk held by a pending send_data future
    rx_pc,           \* consumer task: idle, data (poll_data pending), trailers (poll_trailers pending)
    prod_woken,      \* the producer task's waker has been woken since its last poll
    cons_woken,      \* the consumer task's waker has been woken since its last poll
    sent,            \* history: items accepted by the data queue, in order
    delivered,       \* history: ready results of poll_data, in order
    polled,          \* history: poll_data has been called
    last             \* the last call and what it returned

vars == << kind, h2, wanter, declared, content_length, want, data, trailers, trailers_tx,
           tx_alive, rx_alive, tx_pc, tx_chunk, rx_pc, prod_woken, cons_woken,
           sent, delivered, polled, last >>

---------------------------------------------------------------------------
\* Bounds of the model.
MaxChunkLen == 2
MaxSends == 2
MaxLen == 3
MaxDelivered == MaxSends + 2

\* A chunk (Bytes) is identified by its byte length: a short one and a long one.
Chunks == {1, MaxChunkLen}
ChunkLen(c) == c
HeaderMaps == {"t1", "t2"}
NoTrailers == "none"
Errors == {"Io"}
BodyWriteAborted == "BodyWriteAborted"

---------------------------------------------------------------------------
\* The backpressure signal's values.
WANT_PENDING == 1
WANT_READY == 2
CLOSED == 0

\* DecodedLength: an exact byte count, or the chunked/unknown marker.
Exact(n) == [exact |-> TRUE, n |-> n]
CHUNKED == [exact |-> FALSE, n |-> 0]
ZERO == Exact(0)
DecodedLengths == {CHUNKED, ZERO, Exact(MaxLen)}

\* DecodedLength::sub_if: saturating subtraction; unknown lengths are left alone.
sub_if(len, amt) ==
    IF ~len.exact THEN len
    ELSE Exact(IF amt > len.n THEN 0 ELSE len.n - amt)

\* DecodedLength::into_opt
into_opt(len) == IF len.exact THEN <<len.n>> ELSE <<>>

\* Result<Bytes, crate::Error> as carried by the data queue, and poll_data's None.
OkItem(c) == [tag |-> "Ok", chunk |-> c, err |-> "none"]
ErrItem(e) == [tag |-> "Err", chunk |-> 0, err |-> e]
NoneItem == [tag |-> "None", chunk |-> 0, err |-> "none"]

---------------------------------------------------------------------------
\* watch::channel(initial)
watch_channel(initial) == [value |-> initial, waker |-> FALSE]

\* watch::Sender::send: swap the value, wake the registered waker if it changed.
watch_send(w, value) ==
    [want |-> [value |-> value, waker |-> IF w.value # value THEN FALSE ELSE w.waker],
     wake |-> (w.value # value /\ w.waker)]

\* watch::Receiver::load: register the caller's waker, read the value.
watch_load(w) == [want |-> [w EXCEPT !.waker = TRUE], value |-> w.value]

---------------------------------------------------------------------------
\* mpsc::channel(0) with its one Sender: capacity one (the sender's own slot).
\*   queue         the message queue
\*   is_open       state.is_open
\*   parked_queue  the parked sender tasks, "tx" (the Sender's) or "clone" (abort's)
\*   is_parked, task   the Sender's sender_task (task: a waker is stored)
\*   maybe_parked  the Sender handle's maybe_parked
\*   recv_task     a consumer waker is registered
\*   rx_inner      the Receiver's inner is Some
mpsc_channel ==
    [queue |-> <<>>, is_open |-> TRUE, parked_queue |-> <<>>,
     is_parked |-> FALSE, task |-> FALSE, maybe_parked |-> FALSE,
     recv_task |-> FALSE, rx_inner |-> TRUE]

\* BoundedSenderInner::poll_unparked on the Sender's handle; cx is TRUE with a waker.
poll_unparked(ch, cx) ==
    IF ch.maybe_parked
    THEN IF ~ch.is_parked
         THEN [ch |-> [ch EXCEPT !.maybe_parked = FALSE], ready |-> TRUE]
         ELSE [ch |-> [ch EXCEPT !.task = cx], ready |-> FALSE]
    ELSE [ch |-> ch, ready |-> TRUE]

\* do_send_b: count the message, park the sending handle (buffer 0: always),
\* push the message and wake the receiver; a refused message comes back in val.
do_send(ch, who, msg) ==
    IF ~ch.is_open
    THEN [ch |-> ch, res |-> "Disconnected", val |-> msg, wake_rx |-> FALSE]
    ELSE [ch |-> [ch EXCEPT !.queue = Append(@, msg),
                            !.parked_queue = Append(@, who),
                            !.is_parked = IF who = "tx" THEN TRUE ELSE @,
                            !.task = IF who = "tx" THEN FALSE ELSE @,
                            !.maybe_parked = IF who = "tx" THEN TRUE ELSE @,
                            !.recv_task = FALSE],
          res |-> "Ok", val |-> NoneItem, wake_rx |-> ch.recv_task]

\* mpsc::Sender::try_send on the Sender's own handle.
try_send(ch, msg) ==
    LET u == poll_unparked(ch, FALSE) IN
    IF ~u.ready
    THEN [ch |-> u.ch, res |-> "Full", val |-> msg, wake_rx |-> FALSE]
    ELSE do_send(u.ch, "tx", msg)

\* mpsc::Sender::clone().try_send: a fresh handle, never parked before.
clone_try_send(ch, msg) == do_send(ch, "clone", msg)

\* mpsc::Sender::poll_ready on the Sender's own handle.
mpsc_poll_ready(ch) ==
    IF ~ch.is_open
    THEN [ch |-> ch, res |-> "Disconnected"]
    ELSE LET u == poll_unparked(ch, TRUE) IN
         [ch |-> u.ch, res |-> IF u.ready THEN "Ready" ELSE "Pending"]

\* SenderTask::notify of a parked task: unpark it and wake its waker.
notify(ch, who) ==
    IF who = "tx"
    THEN [ch |-> [ch EXCEPT !.is_parked = FALSE, !.task = FALSE], wake_tx |-> ch.task]
    ELSE [ch |-> ch, wake_tx |-> FALSE]

\* Receiver::unpark_one
unpark_one(ch) ==
    IF ch.parked_queue = <<>>
    THEN [ch |-> ch, wake_tx |-> FALSE]
    ELSE notify([ch EXCEPT !.parked_queue = Tail(@)], Head(ch.parked_queue))

\* mpsc::Receiver::poll_next
poll_next(ch) ==
    IF ~ch.rx_inner
    THEN [ch |-> ch, res |-> "None", item |-> NoneItem, wake_tx |-> FALSE]
    ELSE IF ch.queue # <<>>
    THEN LET u == unpark_one([ch EXCEPT !.queue = Tail(@)]) IN
         [ch |-> u.ch, res |-> "Some", item |-> Head(ch.queue), wake_tx |-> u.wake_tx]
    ELSE IF ~ch.is_open
    THEN [ch |-> [ch EXCEPT !.rx_inner = FALSE], res |-> "None", item |-> NoneItem,
          wake_tx |-> FALSE]
    ELSE [ch |-> [ch EXCEPT !.recv_task = TRUE], res |-> "Pending", item |-> NoneItem,
          wake_tx |-> FALSE]

\* Drop of the last mpsc::Sender: close the channel and wake the receiver.
mpsc_drop_sender(ch) ==
    [ch |-> [ch EXCEPT !.is_open = FALSE, !.recv_task = FALSE], wake_rx |-> ch.recv_task]

\* Drop of the mpsc::Receiver: close, unpark every parked sender, drain the queue.
mpsc_drop_receiver(ch) ==
    [ch |-> [ch EXCEPT !.is_open = FALSE, !.parked_queue = <<>>, !.queue = <<>>,
                       !.is_parked = FALSE, !.task = FALSE, !.recv_task = FALSE,
                       !.rx_inner = FALSE],
     wake_tx |-> (ch.task /\ \E i \in 1..Len(ch.parked_queue) : ch.parked_queue[i] = "tx")]

---------------------------------------------------------------------------
\* oneshot::channel(): data is the slot, complete is set by either side's drop.
oneshot_channel == [data |-> NoTrailers, complete |-> FALSE, rx_task |-> FALSE]

\* oneshot::Sender::send, which consumes (drops) the sender.
oneshot_send(o, t) ==
    IF o.complete
    THEN [o |-> o, res |-> "Err", wake_rx |-> FALSE]
    ELSE [o |-> [data |-> t, complete |-> TRUE, rx_task |-> FALSE],
          res |-> "Ok", wake_rx |-> o.rx_task]

\* Drop of an unused oneshot::Sender.
oneshot_drop_sender(o) ==
    [o |-> [o EXCEPT !.complete = TRUE, !.rx_task = FALSE], wake_rx |-> o.rx_task]

\* oneshot::Receiver::poll
oneshot_poll(o) ==
    IF o.complete
    THEN IF o.data # NoTrailers
         THEN [o |-> [o EXCEPT !.data = NoTrailers], res |-> "Ok", t |-> o.data]
         ELSE [o |-> o, res |-> "Canceled", t |-> NoTrailers]
    ELSE [o |-> [o EXCEPT !.rx_task = TRUE], res |-> "Pending", t |-> NoTrailers]

---------------------------------------------------------------------------
\* What a call leaves in last.
Call(op, res, item, tr) ==
    [op |-> op, res |-> res, item |-> item, tr |-> tr]

\* Kind::H2 { ping, content_length, recv }: a stream that has not ended, nothing
\* released through recv.flow_control() nor recorded by ping yet.
NoH2 ==
    [eos |-> FALSE, data_done |-> FALSE, reset |-> FALSE,
     release_calls |-> 0, released |-> 0, granted |-> 0,
     record_calls |-> 0, recorded |-> 0, non_data |-> 0]

\* Recv::new_channel(content_length, wanter)
InitChan ==
    /\ kind = "Chan"
    /\ h2 = NoH2
    /\ wanter \in BOOLEAN
    /\ declared \in DecodedLengths
    /\ content_length = declared
    /\ want = watch_channel(IF wanter THEN WANT_PENDING ELSE WANT_READY)
    /\ data = mpsc_channel
    /\ trailers = oneshot_channel
    /\ trailers_tx = TRUE
    /\ tx_alive = TRUE
    /\ rx_alive = TRUE
    /\ tx_pc = "idle"
    /\ tx_chunk = 0
    /\ rx_pc = "idle"
    /\ prod_woken = FALSE
    /\ cons_woken = FALSE
    /\ sent = <<>>
    /\ delivered = <<>>
    /\ polled = FALSE
    /\ last = Call("new_channel", "none", NoneItem, NoTrailers)

\* Recv::empty(): Kind::Empty has no Sender, no signal, no queue and no length;
\* the channel variables rest at values no call of an Empty body reads.
InitEmpty ==
    /\ kind = "Empty"
    /\ h2 = NoH2
    /\ wanter = FALSE
    /\ declared = ZERO
    /\ content_length = ZERO
    /\ want = watch_channel(WANT_READY)
    /\ data = mpsc_channel
    /\ trailers = oneshot_channel
    /\ trailers_tx = FALSE
    /\ tx_alive = FALSE
    /\ rx_alive = TRUE
    /\ tx_pc = "idle"
    /\ tx_chunk = 0
    /\ rx_pc = "idle"
    /\ prod_woken = FALSE
    /\ cons_woken = FALSE
    /\ sent = <<>>
    /\ delivered = <<>>
    /\ polled = FALSE
    /\ last = Call("empty", "none", NoneItem, NoTrailers)

Init == InitChan \/ InitEmpty

---------------------------------------------------------------------------
\* poll_want without the CLOSED arm: a closed signal reads as not ready yet.
poll_want_no_closed(w) ==
    LET l == watch_load(w) IN
    [want |-> l.want, res |-> IF l.value = WANT_READY THEN "Ok" ELSE "Pending"]

\* Sender::poll_want
poll_want(w) ==
    LET l == watch_load(w) IN
    [want |-> l.want,
     res |-> IF l.value = WANT_READY THEN "Ok"
             ELSE IF l.value = WANT_PENDING THEN "Pending"
             ELSE IF l.value = CLOSED THEN "Closed"
             ELSE "Unreachable"]

\* Sender::poll_ready: the want gate, then the queue's capacity.
poll_ready(w, ch) ==
    LET pw == poll_want(w) IN
    IF pw.res # "Ok"
    THEN [want |-> pw.want, data |-> ch, res |-> pw.res]
    ELSE LET pr == mpsc_poll_ready(ch) IN
         [want |-> pw.want, data |-> pr.ch,
          res |-> IF pr.res = "Ready" THEN "Ok"
                  ELSE IF pr.res = "Pending" THEN "Pending"
                  ELSE "Closed"]

\* send_data without the queue's capacity gate and without try_send's answer.
send_data_unchecked(w, ch, chunk) ==
    LET pw == poll_want(w) IN
    IF pw.res # "Ok"
    THEN [want |-> pw.want, data |-> ch, res |-> pw.res, wake_rx |-> FALSE]
    ELSE LET s == try_send(ch, OkItem(chunk)) IN
         [want |-> pw.want, data |-> s.ch, res |-> "Ok", wake_rx |-> s.wake_rx]

\* One poll of the send_data future: ready().await?, then try_send.
send_data(w, ch, chunk) ==
    LET r == poll_ready(w, ch) IN
    IF r.res # "Ok"
    THEN [want |-> r.want, data |-> r.data, res |-> r.res, wake_rx |-> FALSE]
    ELSE LET s == try_send(r.data, OkItem(chunk)) IN
         [want |-> r.want, data |-> s.ch,
          res |-> IF s.res = "Ok" THEN "Ok" ELSE "Closed", wake_rx |-> s.wake_rx]

\* try_send_data refusing the chunk until the signal reads WANT_READY.
try_send_data_gated(ch, chunk) ==
    IF want.value # WANT_READY
    THEN [ch |-> ch, res |-> "Full", val |-> OkItem(chunk), wake_rx |-> FALSE]
    ELSE try_send(ch, OkItem(chunk))

\* try_send_data on a clone of data_tx, as abort does.
try_send_data_on_clone(ch, chunk) == clone_try_send(ch, OkItem(chunk))

\* Sender::try_send_data
try_send_data(ch, chunk) == try_send(ch, OkItem(chunk))

\* abort's send without the clone: on data_tx itself.
abort_send_own_handle(ch) == try_send(ch, ErrItem(BodyWriteAborted))

\* Sender::abort's send: on a clone of data_tx, so that a full buffer does not stop it.
abort_send(ch) == clone_try_send(ch, ErrItem(BodyWriteAborted))

\* Sender::send_error's send: on data_tx itself.
send_error(ch, err) == try_send(ch, ErrItem(err))

\* send_trailers answering Ok when trailers_tx was already taken.
send_trailers_lenient(ttx, o, t) ==
    IF ~ttx
    THEN [o |-> o, res |-> "Ok", wake_rx |-> FALSE]
    ELSE LET s == oneshot_send(o, t) IN
         [o |-> s.o, res |-> IF s.res = "Ok" THEN "Ok" ELSE "Closed", wake_rx |-> s.wake_rx]

\* Sender::send_trailers: take trailers_tx, send on it.
send_trailers(ttx, o, t) ==
    IF ~ttx
    THEN [o |-> o, res |-> "Closed", wake_rx |-> FALSE]
    ELSE LET s == oneshot_send(o, t) IN
         [o |-> s.o, res |-> IF s.res = "Ok" THEN "Ok" ELSE "Closed", wake_rx |-> s.wake_rx]

\* Drop of the Sender's fields: data_tx (the last mpsc sender) and trailers_tx.
drop_sender(ch, ttx, o) ==
    LET d == mpsc_drop_sender(ch)
        t == IF ttx THEN oneshot_drop_sender(o) ELSE [o |-> o, wake_rx |-> FALSE]
    IN [data |-> d.ch, trailers |-> t.o, wake_rx |-> (d.wake_rx \/ t.wake_rx)]

\* poll_inner without the sub_if call.
poll_inner_len_kept(len, r) == len

\* poll_inner taking every yielded chunk off the length twice.
poll_inner_len_twice(len, r) ==
    IF r.res = "Some" /\ r.item.tag = "Ok"
    THEN sub_if(sub_if(len, ChunkLen(r.item.chunk)), ChunkLen(r.item.chunk))
    ELSE len

\* Recv::poll_inner (Kind::Chan): what the queue's answer does to content_length.
poll_inner_len(len, r) ==
    IF r.res = "Some" /\ r.item.tag = "Ok" THEN sub_if(len, ChunkLen(r.item.chunk)) ELSE len

\* Recv::poll_inner (Kind::Empty): Ready(None), nothing touched.
poll_inner_empty ==
    [want |-> want, data |-> data, len |-> content_length, res |-> "None",
     item |-> NoneItem, wake_tx |-> FALSE]

\* poll_inner without the WANT_READY signal.
poll_inner_no_want(w, ch, len) ==
    LET r == poll_next(ch) IN
    [want |-> w, data |-> r.ch, len |-> poll_inner_len(len, r),
     res |-> r.res, item |-> r.item, wake_tx |-> r.wake_tx]

\* poll_inner signalling WANT_PENDING where the code signals WANT_READY.
poll_inner_want_pending(w, ch, len) ==
    LET s == watch_send(w, WANT_PENDING)
        r == poll_next(ch)
    IN [want |-> s.want, data |-> r.ch, len |-> poll_inner_len(len, r),
        res |-> r.res, item |-> r.item, wake_tx |-> (s.wake \/ r.wake_tx)]

\* Recv::poll_inner (Kind::Chan): signal WANT_READY, then poll the queue.
poll_inner(w, ch, len) ==
    LET s == watch_send(w, WANT_READY)
        r == poll_next(ch)
    IN [want |-> s.want, data |-> r.ch, len |-> poll_inner_len(len, r),
        res |-> r.res, item |-> r.item, wake_tx |-> (s.wake \/ r.wake_tx)]

\* poll_trailers passing the oneshot's cancellation on as an error.
poll_trailers_strict(o) ==
    LET r == oneshot_poll(o) IN
    [o |-> r.o,
     res |-> IF r.res = "Pending" THEN "Pending" ELSE IF r.res = "Ok" THEN "Some" ELSE "Err",
     t |-> r.t]

\* Recv::poll_trailers (Kind::Chan)
poll_trailers(o) ==
    LET r == oneshot_poll(o) IN
    [o |-> r.o,
     res |-> IF r.res = "Pending" THEN "Pending" ELSE IF r.res = "Ok" THEN "Some" ELSE "None",
     t |-> r.t]

\* is_end_stream also answering true once the data queue was seen closed.
is_end_stream_drained ==
    CASE kind = "Empty" -> TRUE
      [] kind = "Chan" -> (content_length = ZERO \/ ~data.rx_inner)
      [] kind = "H2" -> h2.eos

\* Recv::is_end_stream: Empty is always ended, Chan compares the length with
\* ZERO, H2 asks the receive stream.
is_end_stream ==
    CASE kind = "Empty" -> TRUE
      [] kind = "Chan" -> content_length = ZERO
      [] kind = "H2" -> h2.eos

\* SizeHint: lower bound and upper bound, upper <<>> when there is none.
SizeHintDefault == [lower |-> 0, upper |-> <<>>]
with_exact(n) == [lower |-> n, upper |-> <<n>>]

\* size_hint setting only the upper bound where the code sets both.
size_hint_upper_only ==
    IF kind = "Empty" THEN with_exact(0)
    ELSE LET o == into_opt(content_length) IN
         IF o # <<>> THEN [lower |-> 0, upper |-> <<o[1]>>] ELSE SizeHintDefault

\* Recv::size_hint: exact 0 for Empty; for Chan and H2 the default hint, made
\* exact when the length converts to a number.
size_hint ==
    IF kind = "Empty" THEN with_exact(0)
    ELSE LET o == into_opt(content_length) IN
         IF o # <<>> THEN with_exact(o[1]) ELSE SizeHintDefault

---------------------------------------------------------------------------
\* Producer calls.  A pending send_data future borrows the Sender: until it
\* completes only its own poll can run.

\* Sender::poll_ready
PollReady ==
    /\ tx_alive /\ tx_pc # "send"
    /\ LET r == poll_ready(want, data) IN
       /\ want' = r.want
       /\ data' = r.data
       /\ tx_pc' = IF r.res = "Pending" THEN "ready" ELSE "idle"
       /\ last' = Call("poll_ready", r.res, NoneItem, NoTrailers)
    /\ prod_woken' = FALSE
    /\ UNCHANGED << kind, h2, wanter, declared, polled, content_length, trailers, trailers_tx, tx_alive,
                    rx_alive, tx_chunk, rx_pc, cons_woken, sent, delivered >>

\* A poll of send_data(chunk): the first one, or a later one of the pending future.
SendDataPoll(chunk) ==
    LET r == send_data(want, data, chunk) IN
    /\ want' = r.want
    /\ data' = r.data
    /\ tx_pc' = IF r.res = "Pending" THEN "send" ELSE "idle"
    /\ tx_chunk' = IF r.res = "Pending" THEN chunk ELSE 0
    /\ sent' = IF r.res = "Ok" THEN Append(sent, OkItem(chunk)) ELSE sent
    /\ cons_woken' = (cons_woken \/ r.wake_rx)
    /\ prod_woken' = FALSE
    /\ last' = Call("send_data", r.res, NoneItem, NoTrailers)
    /\ UNCHANGED << kind, h2, wanter, declared, polled, content_length, trailers, trailers_tx, tx_alive,
                    rx_alive, rx_pc, delivered >>

\* Sender::send_data(chunk), first poll
SendData(chunk) ==
    /\ tx_alive /\ tx_pc # "send" /\ Len(sent) < MaxSends
    /\ SendDataPoll(chunk)

\* Sender::send_data, the pending future polled again
SendDataResume ==
    /\ tx_alive /\ tx_pc = "send"
    /\ SendDataPoll(tx_chunk)

\* Sender::try_send_data(chunk)
TrySendData(chunk) ==
    /\ tx_alive /\ tx_pc # "send" /\ Len(sent) < MaxSends
    /\ LET r == try_send_data(data, chunk) IN
       /\ data' = r.ch
       /\ sent' = IF r.res = "Ok" THEN Append(sent, OkItem(chunk)) ELSE sent
       /\ cons_woken' = (cons_woken \/ r.wake_rx)
       /\ last' = Call("try_send_data", IF r.res = "Ok" THEN "Ok" ELSE "Err", r.val,
                       NoTrailers)
    /\ tx_pc' = "idle"
    /\ UNCHANGED << kind, h2, wanter, declared, polled, content_length, want, trailers, trailers_tx,
                    tx_alive, rx_alive, tx_chunk, rx_pc, prod_woken, delivered >>

\* Sender::send_trailers(t)
SendTrailers(t) ==
    /\ tx_alive /\ tx_pc # "send"
    /\ LET r == send_trailers(trailers_tx, trailers, t) IN
       /\ trailers' = r.o
       /\ cons_woken' = (cons_woken \/ r.wake_rx)
       /\ last' = Call("send_trailers", r.res, NoneItem, t)
    /\ trailers_tx' = FALSE
    /\ tx_pc' = "idle"
    /\ UNCHANGED << kind, h2, wanter, declared, polled, content_length, want, data, tx_alive, rx_alive,
                    tx_chunk, rx_pc, prod_woken, sent, delivered >>

\* Sender::abort(self): the abort error is sent, then the Sender is dropped.
Abort ==
    /\ tx_alive /\ tx_pc # "send"
    /\ LET a == abort_send(data)
           d == drop_sender(a.ch, trailers_tx, trailers)
       IN /\ data' = d.data
          /\ trailers' = d.trailers
          /\ sent' = IF a.res = "Ok" THEN Append(sent, ErrItem(BodyWriteAborted)) ELSE sent
          /\ cons_woken' = (cons_woken \/ a.wake_rx \/ d.wake_rx)
          /\ last' = Call("abort", a.res, ErrItem(BodyWriteAborted), NoTrailers)
    /\ tx_alive' = FALSE
    /\ tx_pc' = "idle"
    /\ UNCHANGED << kind, h2, wanter, declared, polled, content_length, want, trailers_tx, rx_alive,
                    tx_chunk, rx_pc, prod_woken, delivered >>

\* Sender::send_error(err)
SendError(err) ==
    /\ tx_alive /\ tx_pc # "send" /\ Len(sent) < MaxSends
    /\ LET r == send_error(data, err) IN
       /\ data' = r.ch
       /\ sent' = IF r.res = "Ok" THEN Append(sent, ErrItem(err)) ELSE sent
       /\ cons_woken' = (cons_woken \/ r.wake_rx)
       /\ last' = Call("send_error", r.res, ErrItem(err), NoTrailers)
    /\ tx_pc' = "idle"
    /\ UNCHANGED << kind, h2, wanter, declared, polled, content_length, want, trailers, trailers_tx,
                    tx_alive, rx_alive, tx_chunk, rx_pc, prod_woken, delivered >>

\* Drop of the Sender (no abort)
DropSender ==
    /\ tx_alive /\ tx_pc # "send"
    /\ LET d == drop_sender(data, trailers_tx, trailers) IN
       /\ data' = d.data
       /\ trailers' = d.trailers
       /\ cons_woken' = (cons_woken \/ d.wake_rx)
    /\ tx_alive' = FALSE
    /\ tx_pc' = "idle"
    /\ last' = Call("drop_sender", "none", NoneItem, NoTrailers)
    /\ UNCHANGED << kind, h2, wanter, declared, polled, content_length, want, trailers_tx, rx_alive,
                    tx_chunk, rx_pc, prod_woken, sent, delivered >>

---------------------------------------------------------------------------
\* Consumer calls.

\* Body::poll_data
PollData ==
    /\ rx_alive /\ Len(delivered) < MaxDelivered
    /\ kind \in {"Empty", "Chan"}
    /\ LET r == IF kind = "Empty" THEN poll_inner_empty
                ELSE poll_inner(want, data, content_length) IN
       /\ want' = r.want
       /\ data' = r.data
       /\ content_length' = r.len
       /\ prod_woken' = (prod_woken \/ r.wake_tx)
       /\ rx_pc' = IF r.res = "Pending" THEN "data" ELSE "idle"
       /\ delivered' = IF r.res = "Pending" THEN delivered ELSE Append(delivered, r.item)
       /\ last' = Call("poll_data", r.res, r.item, NoTrailers)
    /\ cons_woken' = FALSE
    /\ polled' = TRUE
    /\ UNCHANGED << kind, h2, wanter, declared, trailers, trailers_tx, tx_alive, rx_alive, tx_pc,
                    tx_chunk, sent >>

\* poll_trailers signalling WANT_READY as poll_data does.
PollTrailersWant ==
    /\ rx_alive
    /\ kind \in {"Empty", "Chan"}
    /\ LET r == IF kind = "Empty" THEN [o |-> trailers, res |-> "None", t |-> NoTrailers]
                ELSE poll_trailers(trailers)
           s == watch_send(want, WANT_READY)
       IN /\ trailers' = r.o
          /\ want' = s.want
          /\ prod_woken' = (prod_woken \/ s.wake)
          /\ rx_pc' = IF r.res = "Pending" THEN "trailers" ELSE "idle"
          /\ last' = Call("poll_trailers", r.res, NoneItem, r.t)
    /\ cons_woken' = FALSE
    /\ UNCHANGED << kind, h2, wanter, declared, polled, content_length, data, trailers_tx,
                    tx_alive, rx_alive, tx_pc, tx_chunk, sent, delivered >>

\* Body::poll_trailers
PollTrailers ==
    /\ rx_alive
    /\ kind \in {"Empty", "Chan"}
    /\ LET r == IF kind = "Empty" THEN [o |-> trailers, res |-> "None", t |-> NoTrailers]
                ELSE poll_trailers(trailers) IN
       /\ trailers' = r.o
       /\ rx_pc' = IF r.res = "Pending" THEN "trailers" ELSE "idle"
       /\ last' = Call("poll_trailers", r.res, NoneItem, r.t)
    /\ cons_woken' = FALSE
    /\ UNCHANGED << kind, h2, wanter, declared, polled, content_length, want, data, trailers_tx, tx_alive,
                    rx_alive, tx_pc, tx_chunk, prod_woken, sent, delivered >>

\* Drop of the Recv: want_tx (signals CLOSED), data_rx and trailers_rx are dropped.
DropBody ==
    /\ rx_alive
    /\ kind \in {"Empty", "Chan"}
    /\ IF kind = "Empty"
       THEN UNCHANGED << want, data, prod_woken, trailers >>
       ELSE /\ LET s == watch_send(want, CLOSED)
                   d == mpsc_drop_receiver(data)
               IN /\ want' = s.want
                  /\ data' = d.ch
                  /\ prod_woken' = (prod_woken \/ s.wake \/ d.wake_tx)
            /\ trailers' = [data |-> NoTrailers, complete |-> TRUE, rx_task |-> FALSE]
    /\ rx_alive' = FALSE
    /\ rx_pc' = "idle"
    /\ cons_woken' = FALSE
    /\ last' = Call("drop_body", "none", NoneItem, NoTrailers)
    /\ UNCHANGED << kind, h2, wanter, declared, polled, content_length, trailers_tx, tx_alive, tx_pc,
                    tx_chunk, sent, delivered >>

---------------------------------------------------------------------------
Next ==
    \/ PollReady
    \/ \E chunk \in Chunks : SendData(chunk)
    \/ SendDataResume
    \/ \E chunk \in Chunks : TrySendData(chunk)
    \/ \E t \in HeaderMaps : SendTrailers(t)
    \/ Abort
    \/ \E err \in Errors : SendError(err)
    \/ DropSender
    \/ PollData
    \/ PollTrailers
    \/ DropBody

Spec == Init /\ [][Next]_vars

---------------------------------------------------------------------------
\* The streaming scenario: a producer that only awaits send_data and then drops
\* the Sender, a consumer that calls poll_data, again after every item and when
\* woken, until "no more data"; tasks are polled again once woken.
Ended == \E i \in 1..Len(delivered) : delivered[i] = NoneItem

LiveSend == \E chunk \in Chunks : tx_pc = "idle" /\ SendData(chunk)

LiveResume == prod_woken /\ SendDataResume

LiveDropSender == tx_pc = "idle" /\ DropSender

LivePollData == (rx_pc = "idle" \/ cons_woken) /\ ~Ended /\ PollData

LiveNext == LiveSend \/ LiveResume \/ LiveDropSender \/ LivePollData

LiveSpec ==
    /\ Init /\ [][LiveNext]_vars
    /\ WF_vars(LiveResume)
    /\ WF_vars(LivePollData)
    /\ WF_vars(LiveSend \/ LiveDropSender)

---------------------------------------------------------------------------
\* Helpers of the properties.

\* The number of poll_data results before the first "no more data".
RECURSIVE BeforeEnd(_)
BeforeEnd(d) ==
    IF d = <<>> \/ Head(d) = NoneItem THEN 0 ELSE 1 + BeforeEnd(Tail(d))

\* The results before the first "no more data" are the accepted items, in order;
\* "no more data" comes only after all of them, and only "no more data" follows it.
DeliveredInOrder ==
    LET k == BeforeEnd(delivered) IN
    /\ k <= Len(sent)
    /\ \A i \in 1..k : delivered[i] = sent[i]
    /\ k < Len(delivered) =>
         /\ k = Len(sent)
         /\ ~tx_alive
         /\ \A j \in (k + 1)..Len(delivered) : delivered[j] = NoneItem

OnlyChunksSent == \A i \in 1..Len(sent) : sent[i].tag = "Ok"

Aborted == sent # <<>> /\ sent[Len(sent)] = ErrItem(BodyWriteAborted)

\* The total length of the chunks a sequence of poll_data results yielded.
RECURSIVE Bytes(_)
Bytes(d) ==
    IF d = <<>> THEN 0
    ELSE (IF Head(d).tag = "Ok" THEN ChunkLen(Head(d).chunk) ELSE 0) + Bytes(Tail(d))

Suspended == tx_pc \in {"ready", "send"}

---------------------------------------------------------------------------
\* C1: when the producer only sent chunks (no error, no abort), the ready results
\* of poll_data are those chunks in send order; "no more data" appears only once
\* the Sender is dropped and every chunk was yielded, and is all that follows.
C1_ChunksThenEnd == OnlyChunksSent => DeliveredInOrder

C1_Witness ==
    /\ OnlyChunksSent /\ Len(sent) = 2 /\ ~tx_alive
    /\ delivered = sent \o << NoneItem, NoneItem >>

\* C2: abort() with the Body alive always enqueues its BodyWriteAborted error,
\* behind whatever is buffered; the consumer gets the buffered items first, then
\* the abort error as the last item, then "no more data".
C2_AbortDeliveredInOrder ==
    /\ (last.op = "abort" /\ rx_alive) =>
         /\ last.res = "Ok"
         /\ Aborted
         /\ data.queue # <<>> /\ data.queue[Len(data.queue)] = ErrItem(BodyWriteAborted)
    /\ Aborted => DeliveredInOrder
    /\ \A i \in 1..Len(delivered) :
         (delivered[i] = ErrItem(BodyWriteAborted) /\ i < Len(delivered))
            => delivered[i + 1] = NoneItem

C2_Witness ==
    /\ Len(delivered) = 3
    /\ delivered[1].tag = "Ok"
    /\ delivered[2] = ErrItem(BodyWriteAborted)
    /\ delivered[3] = NoneItem
    /\ Len(sent) = 2

\* Lazy mode, Body alive: poll_ready is Pending before the first poll_data, and
\* Ready(Ok) after it when the buffer slot is free.
C3_LazyState ==
    /\ (wanter /\ last.op = "poll_ready" /\ ~polled /\ rx_alive) => last.res = "Pending"
    /\ (wanter /\ last.op = "poll_ready" /\ polled /\ rx_alive /\ data.queue = <<>>)
          => last.res = "Ok"

\* The first poll_data leaves a suspended producer woken.
C3_FirstPollWakes ==
    (wanter /\ ~polled /\ polled' /\ Suspended) => prod_woken'

\* C3 (as amended): in lazy mode, while the Body is alive, every poll_ready made
\* before the consumer's first poll_data returns Pending; the first poll_data wakes
\* a producer suspended in poll_ready; and once poll_data has been called a
\* poll_ready with the Body alive and the buffer slot free returns Ready(Ok).
C3_LazyUntilFirstPoll == []C3_LazyState /\ [][C3_FirstPollWakes]_vars

C3_Witness ==
    /\ wanter /\ polled /\ rx_alive /\ last.op = "poll_ready" /\ last.res = "Ok"
    /\ delivered = <<>>

\* C3 as stated, without "while the Body is alive": in lazy mode every poll_ready
\* before the first poll_data returns Pending, and after it Ready(Ok) when the
\* buffer slot is free.
C3_Original ==
    /\ (wanter /\ last.op = "poll_ready" /\ ~polled) => last.res = "Pending"
    /\ (wanter /\ last.op = "poll_ready" /\ polled /\ data.queue = <<>>) => last.res = "Ok"

\* The step that drops the Body leaves a suspended producer woken.
C4_DropWakes == (rx_alive /\ ~rx_alive' /\ Suspended) => prod_woken'

C4_ClosedAfterDrop == (~rx_alive /\ last.op = "poll_ready") => last.res = "Closed"

\* C4: dropping the Body while the producer is suspended in poll_ready wakes the
\* producer, and a poll_ready after the drop returns Ready with a Closed error.
C4_DropWakesProducer == [][C4_DropWakes]_vars /\ []C4_ClosedAfterDrop

C4_Witness ==
    /\ ~rx_alive /\ prod_woken /\ last.op = "drop_body" /\ tx_pc = "ready"
    /\ ~wanter /\ Len(sent) = 1 /\ delivered = <<>>

\* A try_send_data(c) step taken with an item buffered.
C5_FullStep ==
    \A c \in Chunks :
        (data.queue # <<>> /\ TrySendData(c)) =>
            /\ last'.res = "Err" /\ last'.item = OkItem(c)
            /\ data'.queue = data.queue
            /\ want' = want
            /\ trailers' = trailers /\ trailers_tx' = trailers_tx
            /\ sent' = sent

\* C5: try_send_data(c) with the buffer slot occupied returns Err(c) and leaves the
\* queue, the backpressure signal, the trailer slot and the accepted items as they were.
C5_TrySendFullReturnsChunk == [][C5_FullStep]_vars

C5_Witness ==
    /\ last.op = "try_send_data" /\ last.res = "Err" /\ rx_alive
    /\ data.queue = << OkItem(1) >> /\ last.item = OkItem(2)

\* C6: an error given to send_error while the Body is alive is accepted by the data
\* queue, behind whatever is buffered, so that poll_data delivers it; it is not lost.
C6_SendErrorEnqueued ==
    (last.op = "send_error" /\ rx_alive) =>
        /\ last.res = "Ok"
        /\ data.queue # <<>> /\ data.queue[Len(data.queue)] = last.item

\* A task suspended with no wake-up pending would still get Pending from its poll.
NoLostWakeup ==
    /\ (tx_alive /\ Suspended /\ ~prod_woken) => poll_ready(want, data).res = "Pending"
    /\ (rx_alive /\ rx_pc = "data" /\ ~cons_woken) => poll_next(data).res = "Pending"

\* C7: in the streaming scenario, in eager and in lazy mode, no task is suspended
\* without a pending wake-up while its poll would no longer be Pending; every
\* send_data completes and the consumer gets to "no more data".
C7_DeadlockFree ==
    /\ []NoLostWakeup
    /\ (tx_pc = "send") ~> (tx_pc = "idle")
    /\ <>Ended

C7_Witness ==
    /\ wanter /\ Len(sent) = 2 /\ delivered = sent \o << NoneItem >>
    /\ ~tx_alive /\ last.op = "poll_data"

\* C8: with an exact declared length D, after poll_data yielded chunks of S bytes in
\* total the remaining length is max(0, D - S), also when S > D; an unknown
\* (chunked) declared length stays as it is.
C8_LengthSaturates ==
    IF declared.exact
    THEN LET S == Bytes(delivered) IN
         content_length = Exact(IF S > declared.n THEN 0 ELSE declared.n - S)
    ELSE content_length = declared

C8_Witness ==
    /\ declared = Exact(MaxLen) /\ Bytes(delivered) > MaxLen /\ content_length = ZERO
    /\ last.op = "poll_data"

\* A send_trailers step; a poll_trailers step with a map in the slot; and any other
\* step, which leaves the map in the slot while the Body lives.
C9_Step ==
    /\ \A t \in HeaderMaps :
         SendTrailers(t) =>
            /\ last'.res = IF trailers_tx /\ rx_alive THEN "Ok" ELSE "Closed"
            /\ (trailers_tx /\ rx_alive) => trailers'.data = t
            /\ ~trailers_tx'
            /\ data' = data /\ want' = want /\ content_length' = content_length
            /\ sent' = sent /\ delivered' = delivered
    /\ (trailers.data # NoTrailers /\ last'.op = "poll_trailers")
          => (last'.res = "Some" /\ last'.tr = trailers.data)
    /\ (trailers.data # NoTrailers /\ last'.op # "poll_trailers" /\ rx_alive')
          => trailers'.data = trailers.data

\* C9: the first send_trailers with the Body alive returns Ok and its map is what
\* the Body's next poll_trailers yields; every later send_trailers returns Closed;
\* no send_trailers call, failed or not, touches the data side.
C9_TrailersSentOnce == [][C9_Step]_vars

C9_Witness ==
    /\ last.op = "send_trailers" /\ last.res = "Closed" /\ rx_alive
    /\ trailers.data = "t1" /\ last.tr = "t2" /\ data.queue # <<>>

\* poll_trailers with trailers_tx never used.
C10_State ==
    (last.op = "poll_trailers" /\ trailers_tx) =>
        last.res = IF tx_alive THEN "Pending" ELSE "None"

\* The step that drops the Sender leaves a consumer suspended in poll_trailers woken.
C10_DropWakes ==
    (tx_alive /\ ~tx_alive' /\ trailers_tx /\ rx_alive /\ rx_pc = "trailers") => cons_woken'

\* C10: with no trailers sent, poll_trailers returns Pending while the Sender is
\* alive and Ready(Ok(None)) once it was dropped or aborted; that drop wakes a
\* consumer suspended in poll_trailers.
C10_NoTrailersOnDrop == []C10_State /\ [][C10_DropWakes]_vars

C10_Witness ==
    /\ last.op = "poll_trailers" /\ last.res = "None" /\ trailers_tx /\ Aborted

---------------------------------------------------------------------------
\* The chunks waiting in the data queue.
BufferedChunks == {i \in 1..Len(data.queue) : data.queue[i].tag = "Ok"}

\* C11: the data queue has capacity one: whatever calls were made, at most one
\* item sent through the Sender's own handle is buffered, so at most one chunk;
\* a second queued item is always the error pushed by abort(), which consumed
\* the Sender, and nothing is ever queued behind it.
C11_CapacityOne ==
    /\ Cardinality(BufferedChunks) <= 1
    /\ Len(data.queue) <= 2
    /\ Len(data.queue) = 2 =>
         /\ data.queue[2] = ErrItem(BodyWriteAborted)
         /\ data.queue[1] # ErrItem(BodyWriteAborted)
         /\ ~tx_alive

C11_Witness ==
    /\ data.queue = << OkItem(MaxChunkLen), ErrItem(BodyWriteAborted) >>
    /\ Len(sent) = MaxSends + 1

---------------------------------------------------------------------------
\* What is left of the declared length once the yielded chunks are taken off.
Remaining ==
    IF declared.n > Bytes(delivered) THEN declared.n - Bytes(delivered) ELSE 0

\* size_hint() as the declared length and the chunks yielded so far determine it.
C12_State ==
    size_hint = CASE kind = "Empty" -> [lower |-> 0, upper |-> <<0>>]
                  [] kind = "Chan" /\ declared.exact ->
                        [lower |-> Remaining, upper |-> <<Remaining>>]
                  [] kind = "Chan" /\ ~declared.exact -> [lower |-> 0, upper |-> <<>>]

\* Only a poll_data that yields a chunk changes size_hint().
C12_Step ==
    (last'.op # "poll_data" \/ last'.res # "Some" \/ last'.item.tag # "Ok")
        => size_hint' = size_hint

\* C12: size_hint() is exact 0 for an Empty body; for a channel body of exact
\* declared length it is exact (lower = upper) at the length still remaining, the
\* declared length on a fresh pair; for a chunked one it is lower 0 with no upper
\* bound; no Sender call changes it, only a poll_data that yields a chunk does.
C12_SizeHint == []C12_State /\ [][C12_Step]_vars

C12_Witness ==
    /\ kind = "Chan" /\ declared = Exact(MaxLen)
    /\ Bytes(delivered) = 1 /\ size_hint = with_exact(MaxLen - 1)
    /\ last.op = "try_send_data" /\ last.res = "Ok" /\ data.queue # <<>>

---------------------------------------------------------------------------
\* The producer has kept to the declared length: it sent chunks only, no error
\* and no abort, and no more bytes than were declared.
WithinDeclared == OnlyChunksSent /\ declared.exact /\ Bytes(sent) <= declared.n

\* A poll_data called while is_end_stream() is true yields no chunk and no error.
C13_Step == (is_end_stream /\ last'.op = "poll_data") => last'.res # "Some"

\* As stated: whenever is_end_stream() is true, no later poll_data yields a chunk
\* or an error.
C13_Original == [][C13_Step]_vars

\* C13: while the producer keeps to the declared length (chunks only, their total
\* no more than declared), a poll_data called in a state where is_end_stream() is
\* true yields neither a chunk nor an error.
C13_EndStreamSound == [][WithinDeclared => C13_Step]_vars

C13_Witness ==
    /\ kind = "Chan" /\ declared = Exact(MaxLen) /\ is_end_stream /\ WithinDeclared
    /\ Bytes(delivered) = MaxLen /\ ~Ended
    /\ last.op = "poll_data" /\ last.res = "Pending"

---------------------------------------------------------------------------
\* The signal holds one of its three values and poll_want never reaches its
\* unreachable arm.
C14_Values ==
    kind = "Chan" =>
        /\ want.value \in {WANT_PENDING, WANT_READY, CLOSED}
        /\ last.res # "Unreachable"

\* Until the first poll_data or the drop of the Body the signal is as constructed.
C14_Start ==
    (kind = "Chan" /\ ~polled /\ rx_alive) =>
        want.value = IF wanter THEN WANT_PENDING ELSE WANT_READY

\* A poll_ready on a fresh eager pair, before any poll_data, is Ready(Ok).
C14_EagerFirst ==
    (kind = "Chan" /\ ~wanter /\ ~polled /\ rx_alive /\ sent = <<>>
        /\ last.op = "poll_ready") => last.res = "Ok"

\* The only changes of the signal: PENDING to READY by poll_data, and anything to
\* CLOSED by the drop of the Body.
C14_Step ==
    want'.value # want.value =>
        \/ want.value = WANT_PENDING /\ want'.value = WANT_READY /\ last'.op = "poll_data"
        \/ want'.value = CLOSED /\ last'.op = "drop_body"

\* C14: the signal only ever holds PENDING, READY or CLOSED and poll_want never
\* takes its unreachable arm; it starts READY on an eager pair and PENDING on a
\* lazy one; it goes from PENDING to READY only in poll_data and to CLOSED only in
\* the drop of the Body, never from READY to PENDING and never out of CLOSED; the
\* first poll_ready of a fresh eager pair is Ready(Ok) without any consumer poll.
C14_SignalMonotone ==
    /\ [](C14_Values /\ C14_Start /\ C14_EagerFirst)
    /\ [][C14_Step]_vars

C14_Witness ==
    /\ kind = "Chan" /\ wanter /\ polled /\ ~rx_alive /\ want.value = CLOSED
    /\ last.op = "poll_ready" /\ last.res = "Closed" /\ delivered # <<>>

---------------------------------------------------------------------------
\* What a producer call made after the drop of the Body returned.
C15_State ==
    (kind = "Chan" /\ ~rx_alive) =>
        /\ last.op \in {"poll_ready", "send_data"} => last.res = "Closed"
        /\ last.op = "try_send_data" => (last.res = "Err" /\ last.item.tag = "Ok")
        /\ last.op \in {"abort", "send_error"} => last.res = "Disconnected"
        /\ data.queue = <<>>

\* After the drop try_send_data hands back the chunk it was given, and abort and
\* send_error put nothing in the queue.
C15_Step ==
    (kind = "Chan" /\ ~rx_alive) =>
        /\ \A c \in Chunks : TrySendData(c) => last'.item = OkItem(c)
        /\ last'.op \in {"abort", "send_error"} =>
              (data'.queue = data.queue /\ sent' = sent /\ want' = want)

\* C15: once the Body was dropped, in either demand mode and whatever was
\* buffered, every poll_ready returns Ready with the Closed error, never Pending
\* and never Ok, send_data returns the Closed error, try_send_data(c) returns
\* Err(c) with the same chunk, and abort and send_error return with no effect.
C15_ClosedAfterBodyDrop == []C15_State /\ [][C15_Step]_vars

C15_Witness ==
    /\ kind = "Chan" /\ wanter /\ ~polled /\ ~rx_alive /\ sent # <<>>
    /\ last.op = "try_send_data" /\ last.res = "Err" /\ last.item = OkItem(MaxChunkLen)

---------------------------------------------------------------------------
\* A lazy pair whose consumer has not called poll_data, with nothing buffered.
LazyUnpolled ==
    /\ kind = "Chan" /\ wanter /\ ~polled /\ rx_alive
    /\ want.value = WANT_PENDING /\ data.queue = <<>>

\* try_send_data in that state: Ok, the chunk is the queue's only item and what
\* the next poll of the queue yields, the signal is not touched.
C16_Step ==
    \A c \in Chunks :
        (LazyUnpolled /\ TrySendData(c)) =>
            /\ last'.res = "Ok"
            /\ data'.queue = << OkItem(c) >>
            /\ poll_next(data').item = OkItem(c)
            /\ want' = want

\* The first result of poll_data on a lazy pair is the first item the queue
\* accepted, whether the signal was READY or not when it was sent.
C16_FirstItem ==
    (kind = "Chan" /\ wanter /\ delivered # <<>> /\ sent # <<>>) => delivered[1] = sent[1]

\* C16: try_send_data does not consult the signal: on a lazy pair whose consumer
\* never called poll_data (signal PENDING, poll_ready Pending), try_send_data with
\* the slot empty returns Ok, buffers the chunk, which is the first item the
\* consumer receives once it polls, and leaves the signal at PENDING.
C16_TrySendIgnoresSignal == [][C16_Step]_vars /\ []C16_FirstItem

C16_Witness ==
    /\ kind = "Chan" /\ wanter /\ ~polled /\ rx_alive /\ want.value = WANT_PENDING
    /\ last.op = "try_send_data" /\ last.res = "Ok"
    /\ data.queue = << OkItem(MaxChunkLen) >>

---------------------------------------------------------------------------
\* C17: is_end_stream() depends on the variant and the length only: it is true
\* for an Empty body in every state; for a channel body it is true exactly when
\* the remaining length is the zero sentinel, that is when the declared length
\* was exact and at least that many bytes were yielded, whether or not the Sender
\* is alive, something is buffered, or poll_data already returned "no more data"
\* (a drained body of unknown length still reports false).
C17_EndStreamByLength ==
    /\ kind = "Empty" => is_end_stream
    /\ kind = "Chan" =>
         /\ is_end_stream <=> content_length = ZERO
         /\ is_end_stream <=> (declared.exact /\ Bytes(delivered) >= declared.n)

C17_Witness ==
    /\ kind = "Chan" /\ declared = CHUNKED /\ ~is_end_stream
    /\ Ended /\ ~tx_alive /\ data.queue = <<>> /\ Bytes(delivered) > 0

---------------------------------------------------------------------------
\* The body over an HTTP/2 receive stream (Kind::H2).  The stream is the peer's:
\* what its polls answer is an input of each call.  h2.eos is what
\* recv.is_end_stream() answers; h2.released sums the amounts handed to
\* release_capacity, h2.granted those of the calls that succeeded; h2.recorded
\* sums the amounts handed to ping.record_data.

H2Errors == {"Reset"}

\* DecodedLength::is_exact
is_exact(len) == len.exact

\* Recv::h2 forcing ZERO whenever the stream has ended, whatever the length.
recv_h2_any_length(len, eos) == IF eos THEN ZERO ELSE len

\* Recv::h2: the content_length the new body holds.
recv_h2(len, eos) == IF ~is_exact(len) /\ eos THEN ZERO ELSE len

\* Recv::h2(recv, content_length, ping)
InitH2 ==
    /\ kind = "H2"
    /\ declared \in DecodedLengths
    /\ \E eos \in BOOLEAN :
         /\ h2 = [NoH2 EXCEPT !.eos = eos, !.data_done = eos]
         /\ content_length = recv_h2(declared, eos)
    /\ wanter = FALSE
    /\ want = watch_channel(WANT_READY)
    /\ data = mpsc_channel
    /\ trailers = oneshot_channel
    /\ trailers_tx = FALSE
    /\ tx_alive = FALSE
    /\ rx_alive = TRUE
    /\ tx_pc = "idle"
    /\ tx_chunk = 0
    /\ rx_pc = "idle"
    /\ prod_woken = FALSE
    /\ cons_woken = FALSE
    /\ sent = <<>>
    /\ delivered = <<>>
    /\ polled = FALSE
    /\ last = Call("h2", "none", NoneItem, NoTrailers)

\* h2::RecvStream::poll_data: the answers the stream can give.  fin says that the
\* stream is at its end once this answer is taken (END_STREAM came with it).
PollDataAnswers(h) ==
    IF h.reset THEN {[res |-> "Some", item |-> ErrItem("Reset"), fin |-> TRUE]}
    ELSE IF h.data_done THEN {[res |-> "None", item |-> NoneItem, fin |-> h.eos]}
    ELSE {[res |-> "Pending", item |-> NoneItem, fin |-> FALSE]}
         \cup {[res |-> "Some", item |-> OkItem(c), fin |-> f] : c \in Chunks, f \in BOOLEAN}
         \cup {[res |-> "Some", item |-> ErrItem(e), fin |-> TRUE] : e \in H2Errors}
         \cup {[res |-> "None", item |-> NoneItem, fin |-> f] : f \in BOOLEAN}

\* The stream once the answer is taken.
recv_poll_data(h, out) ==
    [h EXCEPT !.eos = (h.eos \/ out.fin),
              !.data_done = (h.data_done \/ out.fin \/ out.res = "None"),
              !.reset = (h.reset \/ out.item.tag = "Err")]

\* h2::FlowControl::release_capacity(sz): the call may fail and then grants nothing.
release_capacity(h, sz, ok) ==
    [h EXCEPT !.release_calls = @ + 1, !.released = @ + sz,
              !.granted = IF ok THEN @ + sz ELSE @]

\* ping::Recorder::record_data(len)
record_data(h, len) == [h EXCEPT !.record_calls = @ + 1, !.recorded = @ + len]

\* ping::Recorder::record_non_data()
record_non_data(h) == [h EXCEPT !.non_data = @ + 1]

\* crate::Error::new_body(e), crate::Error::new_h2(e): the stream's error as the
\* cause of an error of kind Body, H2.
new_body(e) == "Body"
new_h2(e) == "Http2"

\* poll_inner (Kind::H2) returning release_capacity's failure in place of the frame.
poll_inner_h2_release_checked(h, len, out, rel_ok) ==
    LET s == recv_poll_data(h, out) IN
    IF out.res = "Some" /\ out.item.tag = "Ok"
    THEN LET n == ChunkLen(out.item.chunk)
             rel == release_capacity(s, n, rel_ok)
         IN IF rel_ok
            THEN [h2 |-> record_data(rel, n), len |-> sub_if(len, n),
                  res |-> "Some", item |-> out.item]
            ELSE [h2 |-> rel, len |-> len, res |-> "Some",
                  item |-> ErrItem(new_body("User"))]
    ELSE IF out.res = "Some"
    THEN [h2 |-> s, len |-> len, res |-> "Some", item |-> ErrItem(new_body(out.item.err))]
    ELSE [h2 |-> s, len |-> len, res |-> out.res, item |-> NoneItem]

\* Recv::poll_inner (Kind::H2): on a frame release its length to flow control
\* (the result is dropped), take it off content_length, record it with ping, and
\* yield the frame; an error is yielded as a body error; the rest passes through.
poll_inner_h2(h, len, out, rel_ok) ==
    LET s == recv_poll_data(h, out) IN
    IF out.res = "Some" /\ out.item.tag = "Ok"
    THEN LET n == ChunkLen(out.item.chunk)
             rel == release_capacity(s, n, rel_ok)
         IN [h2 |-> record_data(rel, n), len |-> sub_if(len, n),
             res |-> "Some", item |-> out.item]
    ELSE IF out.res = "Some"
    THEN [h2 |-> s, len |-> len, res |-> "Some", item |-> ErrItem(new_body(out.item.err))]
    ELSE [h2 |-> s, len |-> len, res |-> out.res, item |-> NoneItem]

\* h2::RecvStream::poll_trailers: the answers the stream can give.
PollTrailersAnswers(h) ==
    IF h.reset THEN {[res |-> "Err", t |-> NoTrailers]}
    ELSE IF h.eos THEN {[res |-> "None", t |-> NoTrailers]}
    ELSE {[res |-> "Pending", t |-> NoTrailers], [res |-> "None", t |-> NoTrailers]}
         \cup {[res |-> "Some", t |-> t] : t \in HeaderMaps}
         \cup {[res |-> "Err", t |-> NoTrailers]}

\* Recv::poll_trailers (Kind::H2): a ready Ok answer is recorded with ping as a
\* non-data frame and passed on; an error is passed on as an h2 error.
poll_trailers_h2(h, out) ==
    IF out.res \in {"Some", "None"}
    THEN [h2 |-> record_non_data([h EXCEPT !.eos = TRUE, !.data_done = TRUE]),
          res |-> out.res, t |-> out.t]
    ELSE [h2 |-> [h EXCEPT !.reset = (h.reset \/ out.res = "Err"),
                           !.eos = (h.eos \/ out.res = "Err"),
                           !.data_done = (h.data_done \/ out.res = "Err")],
          res |-> out.res, t |-> NoTrailers]

\* Body::poll_data on an H2 body
PollDataH2 ==
    /\ kind = "H2" /\ rx_alive /\ Len(delivered) < MaxDelivered
    /\ \E out \in PollDataAnswers(h2), rel_ok \in BOOLEAN :
         LET r == poll_inner_h2(h2, content_length, out, rel_ok) IN
         /\ h2' = r.h2
         /\ content_length' = r.len
         /\ rx_pc' = IF r.res = "Pending" THEN "data" ELSE "idle"
         /\ delivered' = IF r.res = "Pending" THEN delivered ELSE Append(delivered, r.item)
         /\ last' = Call("poll_data", r.res, r.item, NoTrailers)
    /\ cons_woken' = FALSE
    /\ polled' = TRUE
    /\ UNCHANGED << kind, wanter, declared, want, data, trailers, trailers_tx, tx_alive,
                    rx_alive, tx_pc, tx_chunk, prod_woken, sent >>

\* Body::poll_trailers on an H2 body
PollTrailersH2 ==
    /\ kind = "H2" /\ rx_alive /\ h2.non_data < MaxDelivered
    /\ \E out \in PollTrailersAnswers(h2) :
         LET r == poll_trailers_h2(h2, out) IN
         /\ h2' = r.h2
         /\ rx_pc' = IF r.res = "Pending" THEN "trailers" ELSE "idle"
         /\ last' = Call("poll_trailers", r.res, NoneItem, r.t)
    /\ cons_woken' = FALSE
    /\ UNCHANGED << kind, wanter, declared, polled, content_length, want, data, trailers,
                    trailers_tx, tx_alive, rx_alive, tx_pc, tx_chunk, prod_woken, sent,
                    delivered >>

\* Drop of an H2 body: the stream and the recorder go with it.
DropBodyH2 ==
    /\ kind = "H2" /\ rx_alive
    /\ rx_alive' = FALSE
    /\ rx_pc' = "idle"
    /\ cons_woken' = FALSE
    /\ last' = Call("drop_body", "none", NoneItem, NoTrailers)
    /\ UNCHANGED << kind, h2, wanter, declared, polled, content_length, want, data, trailers,
                    trailers_tx, tx_alive, tx_pc, tx_chunk, prod_woken, sent, delivered >>

NextH2 ==
    \/ PollDataH2
    \/ PollTrailersH2
    \/ DropBodyH2

SpecH2 == InitH2 /\ [][NextH2]_vars

---------------------------------------------------------------------------
\* As stated: constructed with an exact, positive length on a stream that has
\* already ended, the body holds the zero sentinel.
C18_Original ==
    (last.op = "h2" /\ declared.exact /\ declared.n > 0 /\ h2.eos) =>
        (content_length = ZERO /\ size_hint = with_exact(0))

\* C18: a body constructed over a receive stream that has already ended holds
\* the zero sentinel when the length it was given is not exact (is_end_stream()
\* is true and size_hint() is exact 0 from the start); an exact length is kept as
\* given, and so is any length given for a stream that has not ended.
C18_UnknownLengthAtEos ==
    last.op = "h2" =>
        /\ content_length = IF ~declared.exact /\ h2.eos THEN ZERO ELSE declared
        /\ (~declared.exact /\ h2.eos) => (is_end_stream /\ size_hint = with_exact(0))
        /\ (declared.exact /\ h2.eos) => size_hint = with_exact(declared.n)

C18_Witness ==
    /\ kind = "H2" /\ last.op = "h2" /\ declared = CHUNKED /\ h2.eos
    /\ content_length = ZERO /\ size_hint = with_exact(0)

---------------------------------------------------------------------------
\* The frames among the results of poll_data.
FrameCount(d) == Cardinality({i \in 1..Len(d) : d[i].tag = "Ok"})

\* What the poll_data calls so far have released and recorded.
C19_Totals ==
    kind = "H2" =>
        /\ h2.released = Bytes(delivered) /\ h2.release_calls = FrameCount(delivered)
        /\ h2.recorded = Bytes(delivered) /\ h2.record_calls = FrameCount(delivered)
        /\ h2.granted <= h2.released

\* What one call does: a poll_data that yields a frame of n bytes releases n once,
\* takes n off the length and records n once; every other call does none of it.
C19_Step ==
    IF last'.op = "poll_data" /\ last'.res = "Some" /\ last'.item.tag = "Ok"
    THEN LET n == ChunkLen(last'.item.chunk) IN
         /\ h2'.release_calls = h2.release_calls + 1 /\ h2'.released = h2.released + n
         /\ h2'.record_calls = h2.record_calls + 1 /\ h2'.recorded = h2.recorded + n
         /\ content_length' = sub_if(content_length, n)
    ELSE /\ h2'.release_calls = h2.release_calls /\ h2'.released = h2.released
         /\ h2'.record_calls = h2.record_calls /\ h2'.recorded = h2.recorded
         /\ h2'.granted = h2.granted
         /\ content_length' = content_length

\* C19: on an H2 body every poll_data that yields a frame of n bytes makes exactly
\* one release_capacity(n), one subtraction of n from the length and one
\* record_data(n), and yields the frame even when release_capacity fails; a poll
\* that yields an error, the end of the stream or Pending makes none of them; so
\* the amounts released and recorded both total the bytes yielded.
C19_OneReleasePerFrame == []C19_Totals /\ [][C19_Step]_vars

C19_Witness ==
    /\ kind = "H2" /\ last.op = "poll_data" /\ last.item.tag = "Err"
    /\ FrameCount(delivered) = 2 /\ h2.released = Bytes(delivered)
    /\ h2.granted < h2.released /\ h2.granted > 0

---------------------------------------------------------------------------
\* A poll_trailers call leaves the signal, the data queue, the length and the
\* producer's wake-up flag as they were.
C20_Step ==
    (kind = "Chan" /\ PollTrailers) =>
        /\ want' = want /\ data' = data /\ content_length' = content_length
        /\ prod_woken' = prod_woken /\ sent' = sent /\ delivered' = delivered

\* A lazy pair whose consumer has called no poll_data, poll_trailers or not.
C20_LazyState ==
    (kind = "Chan" /\ wanter /\ ~polled /\ rx_alive) =>
        /\ want.value = WANT_PENDING
        /\ last.op = "poll_ready" => last.res = "Pending"
        /\ tx_pc = "ready" => ~prod_woken

\* C20: poll_trailers on a channel body touches the trailers slot only: it leaves
\* the signal, the data queue and the length unchanged; so on a lazy pair a
\* consumer that only calls poll_trailers never moves the signal off PENDING and
\* the producer's poll_ready stays Pending, unwoken, while the Body is alive.
C20_TrailersOnlyTrailers == [][C20_Step]_vars /\ []C20_LazyState

C20_Witness ==
    /\ kind = "Chan" /\ wanter /\ ~polled /\ rx_alive
    /\ trailers.rx_task /\ rx_pc = "trailers"
    /\ last.op = "poll_ready" /\ last.res = "Pending" /\ tx_pc = "ready"

====
